---- MODULE Spec2Model ----
(***************************************************************************)
(* State-machine model of stretch_body's game-controller input code:       *)
(*   - Joystick        (xbox_controller.py): client of the xboxdrv driver  *)
(*                      subprocess, parsing its 140-character telemetry;   *)
(*   - XboxController  (xbox_controller.py): aggregator writing the        *)
(*                      Joystick's fields into Stick/Button/Trigger        *)
(*                      primitives and exporting the snapshot dictionary;  *)
(*   - GamePadController (gamepad_controller.py): the generic poller.      *)
(*                                                                         *)
(* Time is the value of time.time() in whole seconds.  Floats are exact    *)
(* rationals <<numerator, denominator>> in lowest terms.  Python's None is *)
(* 0 where a Joystick reference is expected, and False/True of a           *)
(* Button.pressed are 0/1 (the accessors return ints, and False == 0).     *)
(***************************************************************************)
EXTENDS Integers, Sequences, FiniteSets, TLC

\* ---------------------------------------------------------------- bounds
MaxStarts == 2      \* start() calls in one run (one driver process each)
MaxPipe == 2        \* lines buffered, unread, in one driver's stdout pipe
MaxTime == 3        \* last clock value (seconds) the model follows
Interrupts == 1     \* places inside one update() where time can pass
MaxSamples == 64    \* raw axis values tried, evenly spread over 16 bits

\* ------------------------------------------------------ program constants
RefreshRate == 30   \* Joystick.__init__(refreshRate=30)
WaitSeconds == 2    \* waitTime = time.time() + 2
TelemetryLen == 140 \* len(response) == 140
AxisNegSpan == 32768
AxisPosSpan == 32767
TriggerSpan == 255
UpdateDeadzone == 0 \* XboxController.update passes deadzone=0
DefaultDeadzone == 4000 \* leftX(self, deadzone=4000)

None == 0
Threads == {"t1", "t2"}
Procs == 1..MaxStarts

\* ------------------------------------------------------------- rationals
RECURSIVE GCD(_, _)
GCD(a, b) == IF b = 0 THEN a ELSE GCD(b, a % b)

Abs(x) == IF x < 0 THEN -x ELSE x

\* n / d as a float: the rational n/d in lowest terms, d > 0
Frac(n, d) == LET g == GCD(Abs(n), d) IN <<n \div g, d \div g>>

\* ------------------------------------------------ the driver's output lines
\* The slice starts of the typed accessors: reading[3:9], reading[13:19], ...
Offsets == {3, 13, 24, 34, 45, 50, 55, 60, 68, 76, 84, 90, 95, 100, 104, 108,
            112, 118, 123, 129, 136}
AxisOffsets == {3, 13, 24, 34}
TriggerOffsets == {129, 136}

\* A line of the driver's stdout: its leading text, its length (newline
\* included) and, for a telemetry line, the integers at the accessors' slices.
NoFields == [o \in Offsets |-> 0]
NoXboxLine == [prefix |-> "No Xbox", len |-> 35, raw |-> NoFields]
ReadyLine == [prefix |-> "Press Ctrl-c", len |-> 25, raw |-> NoFields]
ShortLine == [prefix |-> "", len |-> 1, raw |-> NoFields]
TeleA == [prefix |-> "X1:", len |-> 140,
          raw |-> [o \in Offsets |->
                     IF o \in AxisOffsets THEN 32767
                     ELSE IF o \in TriggerOffsets THEN 255 ELSE 1]]
TeleB == [prefix |-> "X1:", len |-> 140,
          raw |-> [o \in Offsets |->
                     IF o \in AxisOffsets THEN -32768
                     ELSE IF o \in TriggerOffsets THEN 128 ELSE 0]]
Lines == {NoXboxLine, ReadyLine, ShortLine, TeleA, TeleB}

\* A 140-character line whose three-digit trigger fields read 300, as an
\* Xbox One controller with 10-bit triggers can give
TeleOver == [prefix |-> "X1:", len |-> 140,
             raw |-> [o \in Offsets |->
                        IF o \in AxisOffsets THEN 32767
                        ELSE IF o \in TriggerOffsets THEN 300 ELSE 1]]
WireLines == Lines \cup {TeleOver}
TelemetryLines == {l \in Lines : l.len = TelemetryLen}

\* self.reading = '0' * 140
ZeroReading == [prefix |-> "000", len |-> 140, raw |-> NoFields]

\* ------------------------------------------------------ Joystick accessors
\* Variant of axisScale(): the negative side divided by the positive span
axisScale_OneSpan(raw, deadzone) ==
    IF Abs(raw) < deadzone THEN <<0, 1>>
    ELSE IF raw < 0 THEN Frac(raw + deadzone, AxisPosSpan - deadzone)
    ELSE Frac(raw - deadzone, AxisPosSpan - deadzone)

axisScale(raw, deadzone) ==
    IF Abs(raw) < deadzone THEN <<0, 1>>
    ELSE IF raw < 0 THEN Frac(raw + deadzone, AxisNegSpan - deadzone)
    ELSE Frac(raw - deadzone, AxisPosSpan - deadzone)

\* The value a typed accessor decodes from the stored reading.
Accessor(name, rd) ==
    CASE name = "leftX" -> axisScale(rd.raw[3], UpdateDeadzone)
      [] name = "leftY" -> axisScale(rd.raw[13], UpdateDeadzone)
      [] name = "rightX" -> axisScale(rd.raw[24], UpdateDeadzone)
      [] name = "rightY" -> axisScale(rd.raw[34], UpdateDeadzone)
      [] name = "dpadUp" -> rd.raw[45]
      [] name = "dpadDown" -> rd.raw[50]
      [] name = "dpadLeft" -> rd.raw[55]
      [] name = "dpadRight" -> rd.raw[60]
      [] name = "Back" -> rd.raw[68]
      [] name = "Guide" -> rd.raw[76]
      [] name = "Start" -> rd.raw[84]
      [] name = "leftThumbstick" -> rd.raw[90]
      [] name = "rightThumbstick" -> rd.raw[95]
      [] name = "A" -> rd.raw[100]
      [] name = "B" -> rd.raw[104]
      [] name = "X" -> rd.raw[108]
      [] name = "Y" -> rd.raw[112]
      [] name = "leftBumper" -> rd.raw[118]
      [] name = "rightBumper" -> rd.raw[123]
      [] name = "leftTrigger" -> Frac(rd.raw[129], TriggerSpan)
      [] name = "rightTrigger" -> Frac(rd.raw[136], TriggerSpan)

\* ------------------------------------------------- XboxController.update
\* The assignments of update(), in the order of the source.
UpdateOrder ==
    << [attr |-> "left_stick.x", acc |-> "leftX"],
       [attr |-> "left_stick.y", acc |-> "leftY"],
       [attr |-> "right_stick.x", acc |-> "rightX"],
       [attr |-> "right_stick.y", acc |-> "rightY"],
       [attr |-> "left_pad.pressed", acc |-> "dpadLeft"],
       [attr |-> "right_pad.pressed", acc |-> "dpadRight"],
       [attr |-> "top_pad.pressed", acc |-> "dpadUp"],
       [attr |-> "bottom_pad.pressed", acc |-> "dpadDown"],
       [attr |-> "bottom_button.pressed", acc |-> "A"],
       [attr |-> "top_button.pressed", acc |-> "Y"],
       [attr |-> "left_button.pressed", acc |-> "X"],
       [attr |-> "right_button.pressed", acc |-> "B"],
       [attr |-> "left_stick_button.pressed", acc |-> "leftThumbstick"],
       [attr |-> "right_stick_button.pressed", acc |-> "rightThumbstick"],
       [attr |-> "left_shoulder_button.pressed", acc |-> "leftBumper"],
       [attr |-> "right_shoulder_button.pressed", acc |-> "rightBumper"],
       [attr |-> "left_trigger.pulled", acc |-> "leftTrigger"],
       [attr |-> "right_trigger.pulled", acc |-> "rightTrigger"],
       [attr |-> "start_button.pressed", acc |-> "Start"],
       [attr |-> "select_button.pressed", acc |-> "Back"],
       [attr |-> "middle_led_ring_button.pressed", acc |-> "Guide"] >>

NumAccessors == Len(UpdateOrder)
Attrs == {UpdateOrder[i].attr : i \in 1..NumAccessors}
FloatAttrs == {"left_stick.x", "left_stick.y", "right_stick.x",
               "right_stick.y", "left_trigger.pulled", "right_trigger.pulled"}

\* XboxController.__init__: Stick() x = y = 0.0, Button() pressed = False,
\* Trigger() pulled = 0.0
ZeroPrims == [a \in Attrs |-> IF a \in FloatAttrs THEN <<0, 1>> ELSE 0]

\* Variant of XboxController.get_state(): the dictionary without the
\* middle_led_ring_button_pressed entry.
XboxSnapshot_NoGuide(pr) ==
    [left_stick_x |-> pr["left_stick.x"],
     left_stick_y |-> pr["left_stick.y"],
     right_stick_x |-> pr["right_stick.x"],
     right_stick_y |-> pr["right_stick.y"],
     left_stick_button_pressed |-> pr["left_stick_button.pressed"],
     right_stick_button_pressed |-> pr["right_stick_button.pressed"],
     bottom_button_pressed |-> pr["bottom_button.pressed"],
     top_button_pressed |-> pr["top_button.pressed"],
     left_button_pressed |-> pr["left_button.pressed"],
     right_button_pressed |-> pr["right_button.pressed"],
     left_shoulder_button_pressed |-> pr["left_shoulder_button.pressed"],
     right_shoulder_button_pressed |-> pr["right_shoulder_button.pressed"],
     select_button_pressed |-> pr["select_button.pressed"],
     start_button_pressed |-> pr["start_button.pressed"],
     left_trigger_pulled |-> pr["left_trigger.pulled"],
     right_trigger_pulled |-> pr["right_trigger.pulled"],
     bottom_pad_pressed |-> pr["bottom_pad.pressed"],
     top_pad_pressed |-> pr["top_pad.pressed"],
     left_pad_pressed |-> pr["left_pad.pressed"],
     right_pad_pressed |-> pr["right_pad.pressed"]]

\* The dictionary built by XboxController.get_state()
XboxSnapshot(pr) ==
    [middle_led_ring_button_pressed |-> pr["middle_led_ring_button.pressed"],
     left_stick_x |-> pr["left_stick.x"],
     left_stick_y |-> pr["left_stick.y"],
     right_stick_x |-> pr["right_stick.x"],
     right_stick_y |-> pr["right_stick.y"],
     left_stick_button_pressed |-> pr["left_stick_button.pressed"],
     right_stick_button_pressed |-> pr["right_stick_button.pressed"],
     bottom_button_pressed |-> pr["bottom_button.pressed"],
     top_button_pressed |-> pr["top_button.pressed"],
     left_button_pressed |-> pr["left_button.pressed"],
     right_button_pressed |-> pr["right_button.pressed"],
     left_shoulder_button_pressed |-> pr["left_shoulder_button.pressed"],
     right_shoulder_button_pressed |-> pr["right_shoulder_button.pressed"],
     select_button_pressed |-> pr["select_button.pressed"],
     start_button_pressed |-> pr["start_button.pressed"],
     left_trigger_pulled |-> pr["left_trigger.pulled"],
     right_trigger_pulled |-> pr["right_trigger.pulled"],
     bottom_pad_pressed |-> pr["bottom_pad.pressed"],
     top_pad_pressed |-> pr["top_pad.pressed"],
     left_pad_pressed |-> pr["left_pad.pressed"],
     right_pad_pressed |-> pr["right_pad.pressed"]]


\* ------------------------------------------------------------------ state
VARIABLES
    now,            \* time.time(), whole seconds
    xboxBound,      \* whether the global name `xbox` of start() resolves
    stale,          \* an xboxdrv process not launched by this controller runs
    killall,        \* `killall -9 xboxdrv` processes launched, not yet run,
                    \* each named by the start() call that launched it
    procState,      \* the xboxdrv process of each start() call
    ownKilled,      \* the processes terminated by the killall that the
                    \* start() call launching them had launched
    client,         \* the Joystick object of each start() call: its fields
                    \* and the unread lines of its pipe
    joy,            \* XboxController.joy: None or the client of a call
    lock,           \* XboxController.lock: Unlocked or the holding thread
    prims,          \* the Stick/Button/Trigger attributes update() assigns
    starts,         \* start() calls made so far
    active,         \* the threads calling the controller
    budget,         \* how many start() calls the callers make
    feed,           \* the lines the driver can print
    pc,             \* each thread's position
    frame,          \* the locals of the call it is in
    ret,            \* the outcome of its last call
    gpBound,        \* whether the GamePadController object has the
                    \* Stick/Button/Trigger attributes its methods use
    gpPc,           \* GamePadController: "none", "built" or "failed"
    gpFields,       \* its Stick/Button/Trigger attributes
    gpRet,          \* the outcome of the last GamePadController.get_state()
    gpLock,         \* GamePadController.lock: Unlocked or the holding caller
    stop_thread,    \* GamePadController.stop_thread
    gamepad_state,  \* GamePadController.gamepad_state
    gpDevice,       \* what the gamepad itself shows: its buttons, sticks and
                    \* triggers as a reader of the device would find them
    gpThread,       \* the polling thread: its position and the local `state`
    gpCaller,       \* the threads calling stop() and set_zero_state()
    shutdown_flag,  \* GamePadController.shutdown_flag.is_set()
    calc            \* a call of a function on its own: its arguments and,
                    \* once made, its outcome

osVars == <<stale, killall, procState, ownKilled>>
ctlVars == <<joy, lock, prims>>
gpVars == <<gpBound, gpPc, gpFields, gpRet, gpLock, stop_thread, gamepad_state,
            gpDevice, gpThread, gpCaller, shutdown_flag>>
envVars == <<now, xboxBound, active, budget, feed, gpVars, calc>>
vars == <<now, xboxBound, stale, killall, procState, ownKilled, client, joy,
          lock, prims, starts, active, budget, feed, pc, frame, ret, gpBound,
          gpPc, gpFields, gpRet, gpLock, stop_thread, gamepad_state, gpDevice,
          gpThread, gpCaller, shutdown_flag, calc>>

\* Everything but the GamePadController
xboxVars == <<now, xboxBound, active, budget, feed, osVars, client, ctlVars,
              starts, pc, frame, ret, calc>>

\* An exception: its kind, the Joystick that raised it, and for the
\* disconnection the number of lines its refresh() had read before b''.
Exc(kind, j, n) == [kind |-> kind, joy |-> j, drained |-> n]
NoExc == Exc("none", None, 0)

\* Joystick.__init__: the fields before the polling loop.  lastPoll and
\* prevPoll are the clock of the last refresh() that polled the pipe and of
\* the one before it (0: none yet); lost tells whether a refresh() has set
\* connectStatus to False.
NewClient == [connectStatus |-> FALSE, reading |-> ZeroReading,
              refreshTime |-> 0, pipe |-> <<>>, lastPoll |-> 0, prevPoll |-> 0,
              lost |-> FALSE]

\* op: the public method; cid: the start() call (it names the Joystick);
\* k: index of update()'s next assignment; waitTime, found, response:
\* locals of Joystick.__init__; exc: the exception being handled; closed:
\* the client an except-handler closed; dirty: an assignment of this
\* update() changed the value of a primitive.
NoLine == [prefix |-> "", len |-> 0, raw |-> NoFields]
NoFrame == [op |-> "none", cid |-> 0, k |-> 0, waitTime |-> 0,
            found |-> FALSE, response |-> NoLine, exc |-> NoExc,
            closed |-> None, dirty |-> FALSE]

Pending == [op |-> "none", status |-> "pending", value |-> None,
            caught |-> NoExc, closed |-> None, dirty |-> FALSE]

\* What a call hands back: status "returned" with its value, or "raised"
\* with the exception that left the method in `caught`.
Returned(t, v) == [op |-> frame[t].op, status |-> "returned", value |-> v,
                   caught |-> frame[t].exc, closed |-> frame[t].closed,
                   dirty |-> frame[t].dirty]
Raised(t, e) == [op |-> frame[t].op, status |-> "raised", value |-> None,
                 caught |-> e, closed |-> frame[t].closed,
                 dirty |-> frame[t].dirty]

\* The call of thread t ends: its frame is popped.
Return(t, r) ==
    /\ pc' = [pc EXCEPT ![t] = "idle"]
    /\ frame' = [frame EXCEPT ![t] = NoFrame]
    /\ ret' = [ret EXCEPT ![t] = r]

Goto(t, at) == pc' = [pc EXCEPT ![t] = at]

NoSnapshot == [status |-> "none", value |-> None]

\* The dictionary built by GamePadController.get_state()
GamePadSnapshot(f) ==
    [middle_led_ring_button_pressed |-> f["middle_led_ring_button.pressed"],
     left_stick_x |-> f["left_stick.x"],
     left_stick_y |-> f["left_stick.y"],
     right_stick_x |-> f["right_stick.x"],
     right_stick_y |-> f["right_stick.y"],
     left_stick_button_pressed |-> f["left_stick_button.pressed"],
     right_stick_button_pressed |-> f["right_stick_button.pressed"],
     bottom_button_pressed |-> f["bottom_button.pressed"],
     top_button_pressed |-> f["top_button.pressed"],
     left_button_pressed |-> f["left_button.pressed"],
     right_button_pressed |-> f["right_button.pressed"],
     left_shoulder_button_pressed |-> f["left_shoulder_button.pressed"],
     right_shoulder_button_pressed |-> f["right_shoulder_button.pressed"],
     select_button_pressed |-> f["select_button.pressed"],
     start_button_pressed |-> f["start_button.pressed"],
     left_trigger_pulled |-> f["left_trigger.pulled"],
     right_trigger_pulled |-> f["right_trigger.pulled"],
     bottom_pad_pressed |-> f["bottom_pad.pressed"],
     top_pad_pressed |-> f["top_pad.pressed"],
     left_pad_pressed |-> f["left_pad.pressed"],
     right_pad_pressed |-> f["right_pad.pressed"]]

\* set_zero_state(): every pressed = False, every x, y and pulled = 0
GamePadZero == [a \in Attrs |-> IF a \in FloatAttrs THEN <<0, 1>> ELSE 0]

\* A threading.Lock held by nobody
Unlocked == "unlocked"

\* The threads that call the poller's methods
GpCallers == {"c1", "c2"}

\* Every button and pad pressed, every stick and trigger at full deflection
GamePadPressed == [a \in Attrs |-> IF a \in FloatAttrs THEN <<1, 1>> ELSE 1]

\* No function is called on its own
NoCalc == [fn |-> "none"]

InitWith(ths, n, lines, gb, calls) ==
    /\ calc \in calls
    /\ now = 1
    /\ xboxBound \in BOOLEAN
    /\ stale \in BOOLEAN
    /\ budget = n
    /\ feed = lines
    /\ killall = {}
    /\ procState = [p \in Procs |-> "unborn"]
    /\ ownKilled = {}
    /\ client = [p \in Procs |-> NewClient]
    /\ joy = None
    /\ lock = Unlocked
    /\ prims = ZeroPrims
    /\ starts = 0
    /\ active = ths
    /\ pc = [t \in Threads |-> "idle"]
    /\ frame = [t \in Threads |-> NoFrame]
    /\ ret = [t \in Threads |-> Pending]
    /\ gpBound \in gb
    /\ gpPc = "none"
    /\ gpFields = ZeroPrims
    /\ gpRet = NoSnapshot
    /\ gpLock = Unlocked
    /\ stop_thread = FALSE
    /\ gamepad_state = GamePadSnapshot(GamePadZero)
    /\ gpDevice = GamePadZero
    /\ gpThread = [pc |-> "unstarted", state |-> GamePadSnapshot(GamePadZero)]
    /\ gpCaller = [c \in GpCallers |-> [pc |-> "idle", stopped |-> FALSE]]
    /\ shutdown_flag = FALSE

InitFor(ths, n, lines, gb) == InitWith(ths, n, lines, gb, {NoCalc})

\* A session as in main(): one caller, which calls start() once; the driver
\* prints any of its lines.
Init == InitFor({"t1"}, 1, Lines, {FALSE})

\* Restarts: one caller, which calls start() up to MaxStarts times, with a
\* driver that prints its banner lines and no telemetry (no controller is
\* paired with the receiver).
InitRestart == InitFor({"t1"}, MaxStarts, {ReadyLine, NoXboxLine}, {FALSE})

\* ------------------------------------------------------------ environment
Running(p) == procState[p] = "running"
Dead(p) == procState[p] = "dead"

\* select.select([self.pipe], [], [], 0): data is buffered, or end of file
Readable(p) == client[p].pipe # <<>> \/ Dead(p)

UnderConstruction(p) ==
    \E t \in active : pc[t] = "ctor_loop" /\ frame[t].cid = p

\* The client whose pipe somebody can still read: the one under
\* construction or the one the controller holds.
Observed(p) == p = joy \/ UnderConstruction(p)

\* xboxdrv prints its banner lines when it starts and telemetry afterwards.
Printable(p) ==
    IF UnderConstruction(p) THEN WireLines
    ELSE WireLines \ {NoXboxLine, ReadyLine}

\* The last reference to a Joystick is dropped: the object and its pipe end
\* are gone (its process is not touched).
Free(cl, p) == [cl EXCEPT ![p] = NewClient]

Tick ==
    /\ now < MaxTime
    /\ now' = now + 1
    /\ UNCHANGED <<xboxBound, active, budget, feed, gpVars, calc, osVars,
                   client, ctlVars, starts, pc, frame, ret>>

DriverEmit(p, l) ==
    /\ Running(p)
    /\ Observed(p)
    /\ l \in feed \cap Printable(p)
    /\ Len(client[p].pipe) < MaxPipe
    /\ client' = [client EXCEPT ![p].pipe = Append(@, l)]
    /\ UNCHANGED <<envVars, osVars, ctlVars, starts, pc, frame, ret>>

\* The driver ends by itself (controller unplugged, or nothing to drive).
DriverExit(p) ==
    /\ Running(p)
    /\ procState' = [procState EXCEPT ![p] = "dead"]
    /\ UNCHANGED <<envVars, stale, killall, ownKilled, client, ctlVars,
                   starts, pc, frame, ret>>

\* A launched `killall -9 xboxdrv` gets to run: every xboxdrv running at that
\* moment is terminated.
KillallRun(c) ==
    /\ c \in killall
    /\ killall' = killall \ {c}
    /\ stale' = FALSE
    /\ procState' = [p \in Procs |->
                       IF Running(p) THEN "dead" ELSE procState[p]]
    /\ ownKilled' = IF Running(c) THEN ownKilled \cup {c} ELSE ownKilled
    /\ UNCHANGED <<envVars, client, ctlVars, starts, pc, frame, ret>>

\* Joystick.close(): self.proc.kill()
Kill(ps, p) == [ps EXCEPT ![p] = IF ps[p] = "running" THEN "dead" ELSE @]

\* ------------------------------------------------- XboxController.start
\* "xboxdrv" in (p.name() for p in psutil.process_iter())
DriverListed == stale \/ \E p \in Procs : Running(p)

\* start(), up to the call of xbox.Joystick(): the process-name check and the
\* launch (not awaited) of `killall -9 xboxdrv`.
CallStart(t) ==
    /\ pc[t] = "idle"
    /\ starts < budget
    /\ starts' = starts + 1
    /\ frame' = [frame EXCEPT ![t] =
                   [NoFrame EXCEPT !.op = "start", !.cid = starts + 1]]
    /\ killall' = IF DriverListed THEN killall \cup {starts + 1} ELSE killall
    /\ Goto(t, "start_new")
    /\ ret' = [ret EXCEPT ![t] = Pending]
    /\ UNCHANGED <<envVars, stale, procState, ownKilled, client, ctlVars>>

\* xbox.Joystick() with no global `xbox`: NameError, which `except IOError`
\* does not catch.
StartNameError(t) ==
    /\ pc[t] = "start_new"
    /\ ~xboxBound
    /\ Return(t, Raised(t, Exc("NameError", None, 0)))
    /\ UNCHANGED <<envVars, osVars, client, ctlVars, starts>>

\* Joystick.__init__ up to its polling loop: Popen of xboxdrv and the fields.
CtorLaunch(t) ==
    /\ pc[t] = "start_new"
    /\ xboxBound
    /\ procState' = [procState EXCEPT ![frame[t].cid] = "running"]
    /\ client' = [client EXCEPT ![frame[t].cid] = NewClient]
    /\ frame' = [frame EXCEPT ![t].found = FALSE,
                              ![t].waitTime = now + WaitSeconds]
    /\ Goto(t, "ctor_loop")
    /\ UNCHANGED <<envVars, stale, killall, ownKilled, ctlVars, starts, ret>>

\* response[0:7] == b'No Xbox'
IsNoXbox(l) == l.prefix = "No Xbox"
\* response[0:12].lower() == b'press ctrl-c'
Lower(str) == IF str = "Press Ctrl-c" THEN "press ctrl-c" ELSE str
IsReady(l) == Lower(l.prefix) = "press ctrl-c"
\* len(response) == 140
LineValid(l) == l.len = TelemetryLen

\* One pass of the polling loop that reads a line.  (A pass with nothing
\* readable, or reading b'' at end of file, changes nothing.)  On `No Xbox`
\* IOError leaves the constructor, and the object with it.
CtorPoll(t) ==
    /\ pc[t] = "ctor_loop"
    /\ frame[t].waitTime > now
    /\ ~frame[t].found
    /\ client[frame[t].cid].pipe # <<>>
    /\ LET c == frame[t].cid
           response == Head(client[c].pipe)
       IN  IF IsNoXbox(response)
           THEN /\ frame' = [frame EXCEPT
                        ![t].exc = Exc("NoXbox", c, 0),
                        ![t].response = response]
                /\ client' = Free(client, c)
                /\ Goto(t, "start_exc")
           ELSE /\ frame' = [frame EXCEPT
                        ![t].found = IsReady(response) \/ LineValid(response),
                        ![t].response = response]
                /\ client' =
                     IF LineValid(response)
                     THEN [client EXCEPT ![c].pipe = Tail(@),
                                         ![c].connectStatus = TRUE,
                                         ![c].reading = response]
                     ELSE [client EXCEPT ![c].pipe = Tail(@)]
                /\ pc' = pc
    /\ UNCHANGED <<envVars, osVars, ctlVars, starts, ret>>

\* The loop ends with found: the constructor returns, start() stores the
\* client (dropping the one it held) and returns True.
StartAssign(t) ==
    /\ pc[t] = "ctor_loop"
    /\ frame[t].found
    /\ joy' = frame[t].cid
    /\ client' = IF joy # None THEN Free(client, joy) ELSE client
    /\ Return(t, Returned(t, TRUE))
    /\ UNCHANGED <<envVars, osVars, lock, prims, starts>>

\* Variant of the timeout: IOError('Unable to detect') without self.close()
CtorTimeout_NoClose(t) ==
    /\ pc[t] = "ctor_loop"
    /\ ~frame[t].found
    /\ ~(frame[t].waitTime > now)
    /\ client' = Free(client, frame[t].cid)
    /\ frame' = [frame EXCEPT ![t].exc = Exc("NotDetected", frame[t].cid, 0)]
    /\ Goto(t, "start_exc")
    /\ UNCHANGED <<envVars, osVars, ctlVars, starts, ret>>

\* The loop ends on the clock: self.close(), then IOError('Unable to detect')
CtorTimeout(t) ==
    /\ pc[t] = "ctor_loop"
    /\ ~frame[t].found
    /\ ~(frame[t].waitTime > now)
    /\ procState' = Kill(procState, frame[t].cid)
    /\ client' = Free(client, frame[t].cid)
    /\ frame' = [frame EXCEPT ![t].exc = Exc("NotDetected", frame[t].cid, 0)]
    /\ Goto(t, "start_exc")
    /\ UNCHANGED <<envVars, stale, killall, ownKilled, ctlVars, starts, ret>>

\* except IOError: print(inst); if self.joy is not None:
StartExcept(t) ==
    /\ pc[t] = "start_exc"
    /\ IF joy # None
       THEN /\ Goto(t, "start_exc_close")
            /\ UNCHANGED <<frame, ret>>
       ELSE Return(t, Returned(t, TRUE))
    /\ UNCHANGED <<envVars, osVars, client, ctlVars, starts>>

\* self.joy.close() in a handler or in stop(); self.joy is read again, and
\* None has no close(): AttributeError leaves the method.
CloseJoy(t, at, next) ==
    /\ pc[t] = at
    /\ IF joy # None
       THEN /\ procState' = Kill(procState, joy)
            /\ frame' = [frame EXCEPT ![t].closed = joy]
            /\ Goto(t, next)
            /\ ret' = ret
       ELSE /\ Return(t, Raised(t, Exc("AttributeError", None, 0)))
            /\ UNCHANGED procState
    /\ UNCHANGED <<envVars, stale, killall, ownKilled, client, ctlVars, starts>>

\* self.joy = None
ClearJoy ==
    /\ joy' = None
    /\ client' = IF joy # None THEN Free(client, joy) ELSE client

StartExceptClose(t) == CloseJoy(t, "start_exc_close", "start_exc_clear")

\* Variant of start()'s handler: return True without `self.joy = None`
StartExceptClear_KeepsJoy(t) ==
    /\ pc[t] = "start_exc_clear"
    /\ Return(t, Returned(t, TRUE))
    /\ UNCHANGED <<envVars, osVars, client, ctlVars, starts>>

\* self.joy = None; return True
StartExceptClear(t) ==
    /\ pc[t] = "start_exc_clear"
    /\ ClearJoy
    /\ Return(t, Returned(t, TRUE))
    /\ UNCHANGED <<envVars, osVars, lock, prims, starts>>

\* -------------------------------------------------- XboxController.stop
\* if self.joy is not None:
CallStop(t) ==
    /\ pc[t] = "idle"
    /\ IF joy # None
       THEN /\ frame' = [frame EXCEPT ![t] = [NoFrame EXCEPT !.op = "stop"]]
            /\ Goto(t, "stop_close")
            /\ ret' = [ret EXCEPT ![t] = Pending]
       ELSE /\ ret' = [ret EXCEPT ![t] =
                         [Pending EXCEPT !.op = "stop", !.status = "returned"]]
            /\ UNCHANGED <<pc, frame>>
    /\ UNCHANGED <<envVars, osVars, client, ctlVars, starts>>

StopClose(t) == CloseJoy(t, "stop_close", "stop_clear")

\* Variant of stop(): self.joy.close() without `self.joy = None`
StopClear_KeepsJoy(t) ==
    /\ pc[t] = "stop_clear"
    /\ Return(t, Returned(t, None))
    /\ UNCHANGED <<envVars, osVars, client, ctlVars, starts>>

StopClear(t) ==
    /\ pc[t] = "stop_clear"
    /\ ClearJoy
    /\ Return(t, Returned(t, None))
    /\ UNCHANGED <<envVars, osVars, lock, prims, starts>>

\* ------------------------------------------------------ Joystick.refresh
\* Variant of refresh(): no rate limit, every call polls
RefreshDue_Always(rt, tm) == TRUE

\* self.refreshTime < time.time(), refreshTime in units of 1/RefreshRate s
RefreshDue(rt, tm) == rt < tm * RefreshRate

\* time.time() + self.refreshDelay, in the same units
NextRefreshTime(tm) == tm * RefreshRate + 1

\* Variant of refresh(): the last line read is stored whatever its length
AfterDrain_StoresAny(cl, last) ==
    [cl EXCEPT !.connectStatus = LineValid(last), !.reading = last,
               !.pipe = <<>>, !.lost = @ \/ ~LineValid(last)]

\* Variant of refresh(): the first line read decides, not the last
AfterDrain_FirstDecides(cl, last) ==
    IF LineValid(Head(cl.pipe))
    THEN [cl EXCEPT !.connectStatus = TRUE, !.reading = Head(cl.pipe),
                    !.pipe = <<>>]
    ELSE [cl EXCEPT !.connectStatus = FALSE, !.pipe = <<>>, !.lost = TRUE]

\* After the drain: the last line read decides.
AfterDrain(cl, last) ==
    IF LineValid(last)
    THEN [cl EXCEPT !.connectStatus = TRUE, !.reading = last, !.pipe = <<>>]
    ELSE [cl EXCEPT !.connectStatus = FALSE, !.pipe = <<>>, !.lost = TRUE]

\* Variant of refresh(): a zero-length read ends the drain without IOError
Refresh_EofEndsDrain(cl, tm, eof) ==
    IF ~(cl.refreshTime < tm * RefreshRate)
    THEN [raised |-> FALSE, cl |-> cl, drained |-> 0]
    ELSE LET due == [cl EXCEPT !.refreshTime = tm * RefreshRate + 1,
                               !.lastPoll = tm, !.prevPoll = cl.lastPoll]
         IN  IF cl.pipe = <<>>
             THEN [raised |-> FALSE, cl |-> due, drained |-> 0]
             ELSE [raised |-> FALSE,
                   cl |-> AfterDrain(due, cl.pipe[Len(cl.pipe)]),
                   drained |-> Len(cl.pipe)]

\* refresh() of the client cl at clock tm, eof telling whether its driver
\* has ended: the client afterwards, and whether IOError('Xbox controller
\* disconnected from USB') left the method.  The drain reads every buffered
\* line, and readline() at the end of a dead driver's output returns b''.
Refresh(cl, tm, eof) ==
    IF ~RefreshDue(cl.refreshTime, tm)
    THEN [raised |-> FALSE, cl |-> cl, drained |-> 0]
    ELSE LET due == [cl EXCEPT !.refreshTime = NextRefreshTime(tm),
                               !.lastPoll = tm, !.prevPoll = cl.lastPoll]
         IN  IF cl.pipe = <<>> /\ ~eof
             THEN [raised |-> FALSE, cl |-> due, drained |-> 0]
             ELSE IF eof
                  THEN [raised |-> TRUE, cl |-> [due EXCEPT !.pipe = <<>>],
                        drained |-> Len(cl.pipe)]
                  ELSE [raised |-> FALSE,
                        cl |-> AfterDrain(due, cl.pipe[Len(cl.pipe)]),
                        drained |-> Len(cl.pipe)]

\* ------------------------------------ XboxController.update / get_state
\* update(): `if self.joy is not None`, reached from update() or get_state();
\* cid keeps the client that the test found.
EnterUpdate(t, o) ==
    /\ pc[t] = "idle"
    /\ frame' = [frame EXCEPT ![t] = [NoFrame EXCEPT !.op = o, !.cid = joy]]
    /\ ret' = [ret EXCEPT ![t] = Pending]
    /\ Goto(t, IF joy # None THEN "upd_lock" ELSE "upd_done")
    /\ UNCHANGED <<envVars, osVars, client, ctlVars, starts>>

CallUpdate(t) == EnterUpdate(t, "update")
CallGetState(t) == EnterUpdate(t, "get_state")

\* with self.lock:
UpdateLock(t) ==
    /\ pc[t] = "upd_lock"
    /\ lock = Unlocked
    /\ lock' = t
    /\ frame' = [frame EXCEPT ![t].k = 1]
    /\ Goto(t, "upd_acc")
    /\ UNCHANGED <<envVars, osVars, client, joy, prims, starts, ret>>

\* The assignments k..m of update() on the client cl at clock tm, one after
\* the other: self.<attr> = self.joy.<accessor>(), the accessor refreshing
\* and then decoding the stored reading.  at: the assignment whose refresh
\* raised, if one did.
RECURSIVE RunAssignments(_, _, _, _, _, _, _)
RunAssignments(cl, pr, dirty, k_, m, tm, eof) ==
    IF k_ > m
    THEN [cl |-> cl, prims |-> pr, dirty |-> dirty, raised |-> FALSE,
          at |-> 0, drained |-> 0]
    ELSE LET r == Refresh(cl, tm, eof)
             a == UpdateOrder[k_]
             v == Accessor(a.acc, r.cl.reading)
         IN  IF r.raised
             THEN [cl |-> r.cl, prims |-> pr, dirty |-> dirty,
                   raised |-> TRUE, at |-> k_, drained |-> r.drained]
             ELSE RunAssignments(r.cl, [pr EXCEPT ![a.attr] = v],
                                 dirty \/ v # pr[a.attr], k_ + 1, m, tm, eof)

\* The assignments after which update() is held up long enough for the
\* clock to advance or the driver to act: Interrupts of them, evenly spaced.
StopPoints == {(i * NumAccessors) \div (Interrupts + 1) : i \in 1..Interrupts}

\* The last assignment of the run that starts at assignment k_
RunEnd(k_) ==
    IF \E s \in StopPoints : s >= k_
    THEN CHOOSE s \in StopPoints : s >= k_ /\ \A s2 \in StopPoints :
                                                 s2 >= k_ => s <= s2
    ELSE NumAccessors

\* A run of assignments of update(), made at one clock value.  The lock is
\* released when the block is left: after the last assignment, or by an
\* exception.  self.joy is read at each assignment: on None, AttributeError
\* leaves update().
UpdateAssign(t) ==
    /\ pc[t] = "upd_acc"
    /\ IF joy = None
       THEN /\ lock' = Unlocked
            /\ Return(t, Raised(t, Exc("AttributeError", None, 0)))
            /\ UNCHANGED <<client, prims>>
       ELSE LET m == RunEnd(frame[t].k)
                r == RunAssignments(client[joy], prims, frame[t].dirty,
                                    frame[t].k, m, now, Dead(joy))
            IN
            /\ client' = [client EXCEPT ![joy] = r.cl]
            /\ prims' = r.prims
            /\ ret' = ret
            /\ IF r.raised
               THEN /\ frame' = [frame EXCEPT
                          ![t].exc = Exc("Disconnected", joy, r.drained),
                          ![t].k = r.at, ![t].dirty = r.dirty]
                    /\ lock' = Unlocked
                    /\ Goto(t, "upd_exc")
               ELSE IF m < NumAccessors
                    THEN /\ frame' = [frame EXCEPT ![t].k = m + 1,
                                                   ![t].dirty = r.dirty]
                         /\ UNCHANGED <<lock, pc>>
                    ELSE /\ frame' = [frame EXCEPT ![t].k = 0,
                                                   ![t].dirty = r.dirty]
                         /\ lock' = Unlocked
                         /\ Goto(t, "upd_done")
    /\ UNCHANGED <<envVars, osVars, joy, starts>>

\* except IOError: print(inst); if self.joy is not None:
UpdateExcept(t) ==
    /\ pc[t] = "upd_exc"
    /\ Goto(t, IF joy # None THEN "upd_exc_close" ELSE "upd_done")
    /\ UNCHANGED <<envVars, osVars, client, ctlVars, starts, frame, ret>>

UpdateExceptClose(t) == CloseJoy(t, "upd_exc_close", "upd_exc_clear")

\* Variant of update()'s handler: return without `self.joy = None`
UpdateExceptClear_KeepsJoy(t) ==
    /\ pc[t] = "upd_exc_clear"
    /\ Goto(t, "upd_done")
    /\ UNCHANGED <<envVars, osVars, client, ctlVars, starts, frame, ret>>

\* self.joy = None; return
UpdateExceptClear(t) ==
    /\ pc[t] = "upd_exc_clear"
    /\ ClearJoy
    /\ Goto(t, "upd_done")
    /\ UNCHANGED <<envVars, osVars, lock, prims, starts, frame, ret>>

\* update() returns to its caller
UpdateReturn(t) ==
    /\ pc[t] = "upd_done"
    /\ frame[t].op = "update"
    /\ Return(t, Returned(t, None))
    /\ UNCHANGED <<envVars, osVars, client, ctlVars, starts>>

\* Variant of get_state(): with no client the dictionary holds the zero
\* values instead of the attributes' values
GetStateReturn_ZeroWhenNoClient(t) ==
    /\ pc[t] = "upd_done"
    /\ frame[t].op = "get_state"
    /\ lock = Unlocked
    /\ Return(t, Returned(t, XboxSnapshot(IF joy = None THEN ZeroPrims
                                                        ELSE prims)))
    /\ UNCHANGED <<envVars, osVars, client, ctlVars, starts>>

\* get_state() after update(): with self.lock: state = {...}; return state
GetStateReturn(t) ==
    /\ pc[t] = "upd_done"
    /\ frame[t].op = "get_state"
    /\ lock = Unlocked
    /\ Return(t, Returned(t, XboxSnapshot(prims)))
    /\ UNCHANGED <<envVars, osVars, client, ctlVars, starts>>

\* ----------------------------------------------------- GamePadController
\* GamePadController.__init__: set_zero_state(), then one get_state().  The
\* class creates none of the attributes set_zero_state() assigns through
\* (self.middle_led_ring_button, self.left_stick, ...): unless the object has
\* them from elsewhere, AttributeError leaves the constructor.
GamePadConstruct ==
    /\ gpPc = "none"
    /\ IF gpBound
       THEN /\ gpPc' = "built"
            /\ gpFields' = GamePadZero
            /\ gamepad_state' = GamePadSnapshot(GamePadZero)
       ELSE /\ gpPc' = "failed"
            /\ UNCHANGED <<gpFields, gamepad_state>>
    /\ UNCHANGED <<xboxVars, gpBound, shutdown_flag, gpRet, gpLock,
                   stop_thread, gpDevice, gpThread, gpCaller>>

\* Variant of get_state(): the dictionary built without taking self.lock
GamePadGetState_NoMutex ==
    /\ gpPc = "built"
    /\ gpRet' = [status |-> "returned", value |-> GamePadSnapshot(gpFields)]
    /\ UNCHANGED <<xboxVars, gpBound, shutdown_flag, gpPc, gpFields, gpLock,
                   stop_thread, gamepad_state, gpDevice, gpThread, gpCaller>>

\* GamePadController.get_state(), called on the constructed object:
\* with self.lock: state = {...}; return state
GamePadGetState ==
    /\ gpPc = "built"
    /\ gpLock = Unlocked
    /\ gpRet' = [status |-> "returned", value |-> GamePadSnapshot(gpFields)]
    /\ UNCHANGED <<xboxVars, gpBound, shutdown_flag, gpPc, gpFields, gpLock,
                   stop_thread, gamepad_state, gpDevice, gpThread, gpCaller>>

\* Thread.start() of the constructed object, as in main()
GamePadThreadStart ==
    /\ gpPc = "built"
    /\ gpThread.pc = "unstarted"
    /\ gpThread' = [gpThread EXCEPT !.pc = "run"]
    /\ UNCHANGED <<xboxVars, gpBound, shutdown_flag, gpPc, gpFields, gpRet,
                   gpLock, stop_thread, gamepad_state, gpDevice, gpCaller>>

\* run(): while not self.shutdown_flag.is_set(): self.update(); when the
\* flag is set run() returns and the thread ends.  (No method sets it.)
GamePadRun ==
    /\ gpThread.pc = "run"
    /\ gpThread' = [gpThread EXCEPT
                       !.pc = IF shutdown_flag THEN "done" ELSE "loop"]
    /\ UNCHANGED <<xboxVars, gpBound, shutdown_flag, gpPc, gpFields, gpRet,
                   gpLock, stop_thread, gamepad_state, gpDevice, gpCaller>>

\* Variant of update(): the loop goes on whatever stop_thread is
GamePadLoopTest_IgnoresStop ==
    /\ gpThread.pc = "loop"
    /\ gpThread' = [gpThread EXCEPT !.pc = "get"]
    /\ UNCHANGED <<xboxVars, gpBound, shutdown_flag, gpPc, gpFields, gpRet,
                   gpLock, stop_thread, gamepad_state, gpDevice, gpCaller>>

\* update(): while not self.stop_thread: ...; when the flag is up update()
\* returns to run(), which calls it again.
GamePadLoopTest ==
    /\ gpThread.pc = "loop"
    /\ gpThread' = [gpThread EXCEPT !.pc = IF stop_thread THEN "run" ELSE "get"]
    /\ UNCHANGED <<xboxVars, gpBound, shutdown_flag, gpPc, gpFields, gpRet,
                   gpLock, stop_thread, gamepad_state, gpDevice, gpCaller>>

\* update(): the call self.get_state() of an iteration, taking self.lock
GamePadPollGet ==
    /\ gpThread.pc = "get"
    /\ gpLock = Unlocked
    /\ gpThread' = [pc |-> "store", state |-> GamePadSnapshot(gpFields)]
    /\ UNCHANGED <<xboxVars, gpBound, shutdown_flag, gpPc, gpFields, gpRet,
                   gpLock, stop_thread, gamepad_state, gpDevice, gpCaller>>

\* update(): self.gamepad_state = <the dictionary returned>
GamePadPollStore ==
    /\ gpThread.pc = "store"
    /\ gamepad_state' = gpThread.state
    /\ gpThread' = [gpThread EXCEPT !.pc = "loop"]
    /\ UNCHANGED <<xboxVars, gpBound, shutdown_flag, gpPc, gpFields, gpRet,
                   gpLock, stop_thread, gpDevice, gpCaller>>

\* stop(): if not self.stop_thread:
GamePadStopTest(c) ==
    /\ gpPc = "built"
    /\ gpCaller[c].pc = "idle"
    /\ gpCaller' = [gpCaller EXCEPT ![c] =
                      IF stop_thread THEN [pc |-> "idle", stopped |-> TRUE]
                      ELSE [@ EXCEPT !.pc = "stop_set"]]
    /\ UNCHANGED <<xboxVars, gpBound, shutdown_flag, gpPc, gpFields, gpRet,
                   gpLock, stop_thread, gamepad_state, gpDevice, gpThread>>

\* Variant of stop(): the flag is inverted instead of raised
GamePadStopSet_Toggles(c) ==
    /\ gpCaller[c].pc = "stop_set"
    /\ gpLock = Unlocked
    /\ stop_thread' = ~stop_thread
    /\ gpCaller' = [gpCaller EXCEPT ![c] = [pc |-> "idle", stopped |-> TRUE]]
    /\ UNCHANGED <<xboxVars, gpBound, shutdown_flag, gpPc, gpFields, gpRet,
                   gpLock, gamepad_state, gpDevice, gpThread>>

\* stop(): with self.lock: self.stop_thread = True; stop() returns (no join)
GamePadStopSet(c) ==
    /\ gpCaller[c].pc = "stop_set"
    /\ gpLock = Unlocked
    /\ stop_thread' = TRUE
    /\ gpCaller' = [gpCaller EXCEPT ![c] = [pc |-> "idle", stopped |-> TRUE]]
    /\ UNCHANGED <<xboxVars, gpBound, shutdown_flag, gpPc, gpFields, gpRet,
                   gpLock, gamepad_state, gpDevice, gpThread>>

\* set_zero_state(): with self.lock:
GamePadSetZeroLock(c) ==
    /\ gpPc = "built"
    /\ gpCaller[c].pc = "idle"
    /\ gpLock = Unlocked
    /\ gpLock' = c
    /\ gpCaller' = [gpCaller EXCEPT ![c].pc = "zero_sticks"]
    /\ UNCHANGED <<xboxVars, gpBound, shutdown_flag, gpPc, gpFields, gpRet,
                   stop_thread, gamepad_state, gpDevice, gpThread>>

\* The attributes of set_zero_state()'s first block of assignments
ZeroFirst == {"middle_led_ring_button.pressed", "left_stick.x", "left_stick.y",
              "right_stick.x", "right_stick.y"}

\* set_zero_state(): its first block of assignments
GamePadSetZeroSticks(c) ==
    /\ gpCaller[c].pc = "zero_sticks"
    /\ gpFields' = [a \in Attrs |->
                      IF a \in ZeroFirst THEN GamePadZero[a] ELSE gpFields[a]]
    /\ gpCaller' = [gpCaller EXCEPT ![c].pc = "zero_rest"]
    /\ UNCHANGED <<xboxVars, gpBound, shutdown_flag, gpPc, gpRet, gpLock,
                   stop_thread, gamepad_state, gpDevice, gpThread>>

\* set_zero_state(): the other assignments; the lock is released
GamePadSetZeroRest(c) ==
    /\ gpCaller[c].pc = "zero_rest"
    /\ gpFields' = [a \in Attrs |->
                      IF a \in ZeroFirst THEN gpFields[a] ELSE GamePadZero[a]]
    /\ gpLock' = Unlocked
    /\ gpCaller' = [gpCaller EXCEPT ![c].pc = "idle"]
    /\ UNCHANGED <<xboxVars, gpBound, shutdown_flag, gpPc, gpRet, stop_thread,
                   gamepad_state, gpDevice, gpThread>>

\* The class only ever zeroes the attributes; the code that supplies them
\* also stores input values in them, holding the mutex as the class's
\* methods do.
GamePadStoreInput ==
    /\ gpPc = "built"
    /\ gpLock = Unlocked
    /\ gpFields' = GamePadPressed
    /\ UNCHANGED <<xboxVars, gpBound, shutdown_flag, gpPc, gpRet, gpLock,
                   stop_thread, gamepad_state, gpDevice, gpThread, gpCaller>>

\* The user presses or releases the gamepad's controls.
GamePadDeviceInput ==
    /\ gpDevice' = IF gpDevice = GamePadZero THEN GamePadPressed
                   ELSE GamePadZero
    /\ UNCHANGED <<xboxVars, gpBound, shutdown_flag, gpPc, gpFields, gpRet,
                   gpLock, stop_thread, gamepad_state, gpThread, gpCaller>>

\* ------------------------------------------------- functions on their own
\* Everything but calc
worldVars == <<now, xboxBound, active, budget, feed, gpVars, osVars, client,
               ctlVars, starts, pc, frame, ret>>

\* Raw axis values: both ends of the signed 16-bit range, MaxSamples - 1
\* values evenly spread between them, and the values around 0 and around
\* the default deadzone.
RawSamples ==
    {(k * (AxisNegSpan + AxisPosSpan)) \div MaxSamples - AxisNegSpan :
        k \in 0..MaxSamples}
    \cup {-(DefaultDeadzone + 1), -DefaultDeadzone, 1 - DefaultDeadzone,
          -1, 0, 1,
          DefaultDeadzone - 1, DefaultDeadzone, DefaultDeadzone + 1}

\* The deadzones the code passes: update()'s 0 and the accessors' default
Deadzones == {UpdateDeadzone, DefaultDeadzone}

AxisCalls ==
    {[fn |-> "axisScale", raw |-> r, deadzone |-> d, done |-> FALSE,
      out |-> <<0, 1>>] : r \in RawSamples, d \in Deadzones}

\* Joystick.axisScale(raw, deadzone) is called.
AxisScaleCall ==
    /\ calc.fn = "axisScale"
    /\ ~calc.done
    /\ calc' = [calc EXCEPT !.done = TRUE,
                            !.out = axisScale(calc.raw, calc.deadzone)]
    /\ UNCHANGED worldVars

\* The Arm object on which set_velocity() is called
TheArm == 100

\* The arguments of a call of Arm.set_velocity(): numbers, None where the
\* default is None, and req_calibration as 0/1.
ArmArgs ==
    [v_m : {1, 2}, a_m : {None, 3}, stiffness : {None, 4},
     contact_thresh_pos_N : {None, 5}, contact_thresh_neg_N : {None, 6},
     req_calibration : {0, 1}, contact_thresh_pos : {None, 7},
     contact_thresh_neg : {None, 8}]

\* The parameters of PrismaticJoint.set_velocity / set_safe_velocity, in
\* order, and their defaults (None for the two that have none).
BaseParams ==
    <<"self", "v_m", "a_m", "stiffness", "contact_thresh_pos_N",
      "contact_thresh_neg_N", "req_calibration", "contact_thresh_pos",
      "contact_thresh_neg">>
ParamNames == {BaseParams[i] : i \in 1..Len(BaseParams)}
BaseDefaults == [p \in ParamNames |-> IF p = "req_calibration" THEN 1 ELSE None]
NoBinding == [p \in ParamNames |-> None]

\* The positional argument list Arm.set_velocity() writes in its call:
\* (v_m, a_m, stiffness, contact_thresh_pos_N, contact_thresh_neg_N,
\*  req_calibration, contact_thresh_pos, contact_thresh_neg)
Positional(a) ==
    <<a.v_m, a.a_m, a.stiffness, a.contact_thresh_pos_N,
      a.contact_thresh_neg_N, a.req_calibration, a.contact_thresh_pos,
      a.contact_thresh_neg>>

\* Python's binding of a positional argument list to the parameters of a
\* function taken from its class: the i-th argument to the i-th parameter,
\* defaults for the parameters left over.
Bind(pos) ==
    [p \in ParamNames |->
        LET i == CHOOSE j \in 1..Len(BaseParams) : BaseParams[j] = p
        IN  IF i <= Len(pos) THEN pos[i] ELSE BaseDefaults[p]]

\* strict: the interpreter refuses a method taken from the class whose
\* first argument is not an instance (Python 2: TypeError); otherwise it
\* is a plain function (Python 3).
ArmCalls ==
    {[fn |-> "set_velocity", flag |-> f, args |-> a, strict |-> st,
      done |-> FALSE, callee |-> "none", outcome |-> "none",
      bound |-> NoBinding] : f \in {0, 1}, a \in ArmArgs, st \in BOOLEAN}

\* Arm.set_velocity(...): the test of self.params['safe_set_velocit'] and
\* the call of the base method
SetVelocityCall ==
    /\ calc.fn = "set_velocity"
    /\ ~calc.done
    /\ calc' = [calc EXCEPT
           !.done = TRUE,
           !.callee = IF calc.flag = 1 THEN "set_safe_velocity"
                      ELSE "set_velocity",
           !.outcome = IF calc.strict THEN "TypeError" ELSE "called",
           !.bound = IF calc.strict THEN NoBinding
                     ELSE Bind(Positional(calc.args))]
    /\ UNCHANGED worldVars

\* ---------------------------------------------------------- specification
ThreadStep(t) ==
    \/ CallStart(t)
    \/ StartNameError(t)
    \/ CtorLaunch(t)
    \/ CtorPoll(t)
    \/ StartAssign(t)
    \/ CtorTimeout(t)
    \/ StartExcept(t)
    \/ StartExceptClose(t)
    \/ StartExceptClear(t)
    \/ CallStop(t)
    \/ StopClose(t)
    \/ StopClear(t)
    \/ CallUpdate(t)
    \/ CallGetState(t)
    \/ UpdateLock(t)
    \/ UpdateAssign(t)
    \/ UpdateExcept(t)
    \/ UpdateExceptClose(t)
    \/ UpdateExceptClear(t)
    \/ UpdateReturn(t)
    \/ GetStateReturn(t)

Next ==
    \/ Tick
    \/ \E p \in Procs, l \in WireLines : DriverEmit(p, l)
    \/ \E p \in Procs : DriverExit(p)
    \/ \E c \in Procs : KillallRun(c)
    \/ \E t \in active : ThreadStep(t)

Spec == Init /\ [][Next]_vars
SpecRestart == InitRestart /\ [][Next]_vars

\* A session with a controller whose trigger fields go beyond 255
InitRange == InitFor({"t1"}, 1, {ReadyLine, TeleOver}, {FALSE})
SpecRange == InitRange /\ [][Next]_vars

\* Two threads on one controller, as a reader that polls get_state() and a
\* supervisor that calls stop(): every method from either thread, with a
\* driver that prints its ready line (no controller input arrives).
InitRace == InitFor(Threads, 1, {ReadyLine}, {FALSE})
SpecRace == InitRace /\ [][Next]_vars

\* Both controllers side by side: a session of the Xbox aggregator with a
\* driver that prints its ready line and telemetry, and a GamePadController.
InitSchema == InitFor({"t1"}, 1, {ReadyLine, TeleA}, BOOLEAN)
NextSchema == Next \/ GamePadConstruct \/ GamePadGetState
SpecSchema == InitSchema /\ [][NextSchema]_vars

\* The generic poller alone: its constructor, its thread, callers of
\* get_state(), stop() and set_zero_state(), and the gamepad.
InitGamePad == InitFor({}, 0, {}, BOOLEAN)
NextGamePad ==
    \/ GamePadConstruct
    \/ GamePadGetState
    \/ GamePadThreadStart
    \/ GamePadRun
    \/ GamePadLoopTest
    \/ GamePadPollGet
    \/ GamePadPollStore
    \/ \E c \in GpCallers : GamePadStopTest(c)
    \/ \E c \in GpCallers : GamePadStopSet(c)
    \/ \E c \in GpCallers : GamePadSetZeroLock(c)
    \/ \E c \in GpCallers : GamePadSetZeroSticks(c)
    \/ \E c \in GpCallers : GamePadSetZeroRest(c)
    \/ GamePadStoreInput
    \/ GamePadDeviceInput
SpecGamePad == InitGamePad /\ [][NextGamePad]_vars

\* The same under fair scheduling: the polling thread and every caller get
\* to take their steps, the thread getting self.lock whenever it is free
\* again and again.
FairGamePad ==
    /\ WF_vars(GamePadRun)
    /\ WF_vars(GamePadLoopTest)
    /\ SF_vars(GamePadPollGet)
    /\ WF_vars(GamePadPollStore)
    /\ \A c \in GpCallers :
          /\ SF_vars(GamePadStopSet(c))
          /\ WF_vars(GamePadSetZeroSticks(c))
          /\ WF_vars(GamePadSetZeroRest(c))
SpecGamePadFair == SpecGamePad /\ FairGamePad

\* Single calls of Joystick.axisScale() and of Arm.set_velocity(), over
\* their arguments
InitCalc == InitWith({}, 0, {}, {FALSE}, AxisCalls \cup ArmCalls)
NextCalc == AxisScaleCall \/ SetVelocityCall
SpecCalc == InitCalc /\ [][NextCalc]_vars

\* ================================================================ claims
DetectFailures == {"NoXbox", "NotDetected"}
UpdateOps == {"update", "get_state"}

\* C1: whenever constructing the device client inside start() fails because
\* the controller is not detected (a `No Xbox` line, or the 2-second wait
\* running out), start() raises nothing, returns True, and self.joy is None
\* afterwards, also when a client from an earlier start() was held.
\* (SpecRestart)
C1_StartSwallowsDetectFailure ==
    \A t \in active :
        (ret[t].op = "start" /\ ret[t].caught.kind \in DetectFailures)
            => /\ ret[t].status = "returned"
               /\ ret[t].value = TRUE
               /\ joy = None

\* A start() that failed to detect the controller while an earlier client
\* was held has returned, having closed that client.
C1_Witness ==
    \E t \in active :
        /\ ret[t].op = "start"
        /\ ret[t].status = "returned"
        /\ ret[t].caught.kind \in DetectFailures
        /\ ret[t].closed # None

\* C2: update() and get_state() never raise; when the device client raises
\* the disconnection, the handler has closed that very client (its driver
\* is dead) and self.joy is None on return; and while self.joy is None a
\* call of update() or get_state() is past every client read (it only
\* returns), until a start() installs a new client.  (SpecRestart)
C2_DisconnectCaughtAndCleared ==
    \A t \in active :
        /\ ret[t].op \in UpdateOps => ret[t].status = "returned"
        /\ (ret[t].op \in UpdateOps /\ ret[t].caught.kind = "Disconnected")
               => /\ joy = None
                  /\ ret[t].closed = ret[t].caught.joy
                  /\ Dead(ret[t].caught.joy)
        /\ (frame[t].op \in UpdateOps /\ joy = None) => pc[t] = "upd_done"

\* An update() or get_state() has returned after catching the disconnection.
C2_Witness ==
    \E t \in active :
        /\ ret[t].op \in UpdateOps
        /\ ret[t].status = "returned"
        /\ ret[t].caught.kind = "Disconnected"
        /\ ret[t].closed # None

\* C3: when the client raises the disconnection during update(), every
\* primitive has the value it had when the call began, whichever accessor
\* raised.  (Spec)  Violated: the assignments made before the raising
\* accessor stay.
C3_DisconnectLeavesPrims ==
    \A t \in active :
        (ret[t].op \in UpdateOps /\ ret[t].caught.kind = "Disconnected")
            => ~ret[t].dirty

\* The primitives as update() leaves them when all of its accessors decode
\* the one reading rd.
DecodeAll(rd) ==
    [a \in Attrs |->
        LET i == CHOOSE j \in 1..NumAccessors : UpdateOrder[j].attr = a
        IN  Accessor(UpdateOrder[i].acc, rd)]

\* The snapshot s has all of its fields from one line (the initial reading
\* '0' * 140 included, whose decoding is also the initial primitives).
OneLine(s) ==
    \E l \in TelemetryLines \cup {ZeroReading} : s = XboxSnapshot(DecodeAll(l))

\* C4: every snapshot returned by XboxController.get_state() has all of its
\* fields decoded from one and the same telemetry line.  (Spec)  Violated:
\* a refresh falling due between two accessors of one update() stores a
\* newer line, under the lock.
C4_SnapshotFromOneLine ==
    \A t \in active :
        (ret[t].op = "get_state" /\ ret[t].status = "returned")
            => OneLine(ret[t].value)

\* C5: the killall launched by a start() call never terminates the driver
\* process that the same start() call launches.  (Spec)  Violated: the
\* killall is launched and not awaited, so it can run after Popen of the
\* new driver.
C5_KillallSparesOwnDriver == ownKilled = {}

\* Thread t makes a run of update()'s assignments (UpdateAssign).
AssignStep(t) == pc[t] = "upd_acc" /\ frame'[t] # frame[t]

\* The refresh() of the first accessor of the run polls the pipe.
PollDue == joy # None /\ client[joy].refreshTime < now * RefreshRate

\* C6: a refresh() that polls and reads at least one line, the last of which
\* is not 140 long (and none zero-length), sets connectStatus to False and
\* leaves the reading as it was, so that the accessors of the run return the
\* values of the old reading.  (Spec)
C6_InvalidLineKeepsReading ==
    [][\A t \in active :
        (/\ AssignStep(t)
         /\ PollDue
         /\ ~Dead(joy)
         /\ client[joy].pipe # <<>>
         /\ client[joy].pipe[Len(client[joy].pipe)].len # TelemetryLen)
        => /\ ~client'[joy].connectStatus
           /\ client'[joy].reading = client[joy].reading
           /\ client'[joy].pipe = <<>>
           /\ \A i \in frame[t].k..RunEnd(frame[t].k) :
                prims'[UpdateOrder[i].attr] =
                    Accessor(UpdateOrder[i].acc, client[joy].reading)]_vars

\* The held client is marked disconnected by a refresh() and still stores a
\* telemetry line it had read before.
C6_Witness ==
    /\ joy # None
    /\ ~client[joy].connectStatus
    /\ client[joy].reading \in TelemetryLines
    /\ client[joy].lastPoll # 0

\* C7: a refresh() that polls a pipe whose driver has ended reads b'' after
\* the buffered lines and raises the disconnection, whatever connectStatus
\* was and however many lines it drained first; the run assigns nothing and
\* the reading and connectStatus stay.  (Spec)
C7_ZeroLengthReadRaises ==
    [][\A t \in active :
        (AssignStep(t) /\ PollDue /\ Dead(joy))
        => /\ pc'[t] = "upd_exc"
           /\ frame'[t].exc =
                  Exc("Disconnected", joy, Len(client[joy].pipe))
           /\ frame'[t].k = frame[t].k
           /\ prims' = prims
           /\ client'[joy].reading = client[joy].reading
           /\ client'[joy].connectStatus = client[joy].connectStatus]_vars

\* The disconnection is being handled, raised by a client that was connected
\* and had drained lines before the zero-length read.
C7_Witness ==
    \E t \in active :
        /\ pc[t] = "upd_exc"
        /\ frame[t].exc.kind = "Disconnected"
        /\ frame[t].exc.drained > 0
        /\ client[frame[t].exc.joy].connectStatus

NoSignal(l) ==
    /\ l.prefix # "No Xbox"
    /\ l.prefix \notin {"Press Ctrl-c", "press ctrl-c"}
    /\ l.len # 140

\* C9: Joystick construction ends in one of three ways.  It raises
\* device-not-found on reading a `No Xbox` line; it succeeds on reading a
\* line starting, in any case, with `press ctrl-c` or a 140-character line,
\* connectStatus being True exactly in the 140-character case; and while
\* the lines read are neither, it goes on until the wait is over, when it
\* kills the driver and raises device-not-detected.  (Spec)
C9_ConstructionOutcomes ==
    \A t \in active :
        LET f == frame[t]
        IN  /\ (pc[t] = "ctor_loop" /\ ~f.found) => NoSignal(f.response)
            /\ (pc[t] = "ctor_loop" /\ f.found)
                   => /\ f.response.prefix # "No Xbox"
                      /\ \/ f.response.prefix
                                \in {"Press Ctrl-c", "press ctrl-c"}
                         \/ f.response.len = 140
                      /\ client[f.cid].connectStatus <=> f.response.len = 140
                      /\ f.exc = NoExc
            /\ pc[t] = "start_exc" => f.exc.kind \in DetectFailures
            /\ (pc[t] = "start_exc" /\ f.exc.kind = "NoXbox")
                   => f.response.prefix = "No Xbox" /\ ~f.found
            /\ (pc[t] = "start_exc" /\ f.exc.kind = "NotDetected")
                   => /\ Dead(f.exc.joy)
                      /\ f.waitTime <= now
                      /\ ~f.found
                      /\ NoSignal(f.response)

\* The constructor has raised device-not-detected after reading a line that
\* is neither signal.
C9_Witness ==
    \E t \in active :
        /\ pc[t] = "start_exc"
        /\ frame[t].exc.kind = "NotDetected"
        /\ frame[t].response.len > 0

\* The key sets of the last snapshots returned by the two controllers
XboxKeys(t) == DOMAIN ret[t].value
GamePadKeys == DOMAIN gpRet.value

\* C10 as stated: the snapshots of GamePadController.get_state() and of
\* XboxController.get_state() have the identical set of keys, and that set
\* has 20 keys.  (SpecSchema)  Violated: the set has 21 keys.
C10_SchemaParity20 ==
    \A t \in active :
        /\ (ret[t].op = "get_state" /\ ret[t].status = "returned")
               => /\ Cardinality(XboxKeys(t)) = 20
                  /\ gpRet.status = "returned" => GamePadKeys = XboxKeys(t)
        /\ gpRet.status = "returned" => Cardinality(GamePadKeys) = 20

\* C10, amended: the snapshots of GamePadController.get_state() and of
\* XboxController.get_state() have the identical set of keys, and that set
\* has 21 keys, in every reachable state.  (SpecSchema)
C10_SchemaParity21 ==
    \A t \in active :
        /\ (ret[t].op = "get_state" /\ ret[t].status = "returned")
               => /\ Cardinality(XboxKeys(t)) = 21
                  /\ gpRet.status = "returned" => GamePadKeys = XboxKeys(t)
        /\ gpRet.status = "returned" => Cardinality(GamePadKeys) = 21

\* Both controllers have returned a snapshot, the Xbox one with a connected
\* client.
C10_Witness ==
    /\ gpRet.status = "returned"
    /\ joy # None
    /\ client[joy].connectStatus
    /\ \E t \in active : ret[t].op = "get_state" /\ ret[t].status = "returned"

\* C11: while no client is held (self.joy is None) no primitive changes, and
\* a get_state() that finds no client returns the current values of the
\* primitives; a first start() that ends without a client leaves them all
\* at their initial zero values, which is then what get_state() returns.
\* (Spec)
C11_NoClientGetState ==
    [][\A t \in active :
        /\ joy = None => prims' = prims
        /\ (/\ frame[t].op = "get_state"
            /\ frame[t].exc = NoExc
            /\ joy = None
            /\ pc[t] # "idle"
            /\ pc'[t] = "idle")
           => /\ ret'[t].status = "returned"
              /\ ret'[t].value = XboxSnapshot(prims)
        /\ (starts' = 1 /\ pc'[t] = "idle" /\ ret'[t].op = "start"
            /\ joy' = None)
           => prims' = ZeroPrims]_vars

\* A get_state() that found no client has returned the primitives' current
\* values, which an earlier client had set to other than zero.
C11_Witness ==
    \E t \in active :
        /\ ret[t].op = "get_state"
        /\ ret[t].status = "returned"
        /\ ret[t].caught = NoExc
        /\ joy = None
        /\ prims # ZeroPrims
        /\ ret[t].value = XboxSnapshot(prims)

PollIteration == gpThread.pc = "get" /\ gpThread'.pc = "store"

\* C13: each iteration of the polling loop re-reads the device and replaces
\* the stored fields, so that the dictionary it takes shows what the gamepad
\* shows.  (SpecGamePad)  Violated: update() only copies the attributes into
\* gamepad_state; nothing in the class reads the device or assigns the
\* attributes anything but zero.
C13_IterationRereadsDevice ==
    [][PollIteration
        => /\ gpFields' = gpDevice
           /\ gpThread'.state = GamePadSnapshot(gpDevice)]_vars

\* C14: constructing a GamePadController succeeds, every field then being
\* zero.  (SpecGamePad)  Violated: set_zero_state() assigns through
\* attributes the class never creates, and AttributeError leaves __init__.
C14_ConstructionSucceeds ==
    /\ gpPc # "failed"
    /\ gpPc = "built" /\ gpRet.status = "none" => gpFields = GamePadZero

\* C15: once stop_thread is up (stop() sets it before it returns) the
\* polling thread begins no further iteration: it takes self.lock and
\* writes gamepad_state only to finish the iteration it was in.
\* (SpecGamePad)
C15_NoIterationAfterStop ==
    [][/\ \A c \in GpCallers : gpCaller'[c].stopped => stop_thread'
       /\ stop_thread
          => /\ gpThread'.pc = "get" => gpThread.pc = "get"
             /\ gpThread'.pc = "store" => gpThread.pc \in {"get", "store"}
             /\ gamepad_state' # gamepad_state => gpThread.pc = "store"
             /\ gpThread'.state # gpThread.state => gpThread.pc = "get"]_vars

\* A stop() has returned while the polling thread is inside an iteration,
\* about to call get_state().
C15_Witness ==
    /\ stop_thread
    /\ \E c \in GpCallers : gpCaller[c].stopped /\ gpCaller[c].pc = "idle"
    /\ gpThread.pc = "get"

\* Caller c takes a step of stop().
StopStep(c) ==
    \/ gpCaller[c].pc = "stop_set" /\ gpCaller'[c].pc = "idle"
    \/ gpCaller[c].pc = "idle" /\ gpCaller'[c].pc = "stop_set"
    \/ gpCaller[c].pc = "idle" /\ ~gpCaller[c].stopped /\ gpCaller'[c].stopped

\* C16: stop() raises the flag and nothing else: the flag, once up, stays
\* up, every stop() that has returned finds it up, whichever thread called
\* and however many calls came before; its steps change no field, nor
\* gamepad_state, nor the polling thread, on which it does not wait.
\* (SpecGamePad)
C16_StopIdempotent ==
    [][/\ stop_thread => stop_thread'
       /\ \A c \in GpCallers :
            /\ gpCaller'[c].stopped => stop_thread'
            /\ StopStep(c)
               => UNCHANGED <<gpFields, gamepad_state, gpThread, gpLock,
                              gpRet, gpPc>>]_vars

\* Both callers have returned from stop(), the fields hold the input values
\* stored before, and the polling thread is still inside an iteration.
C16_Witness ==
    /\ \A c \in GpCallers : gpCaller[c].stopped /\ gpCaller[c].pc = "idle"
    /\ stop_thread
    /\ gpFields = GamePadPressed
    /\ gpThread.pc = "store"

\* The dictionaries of a complete state of the fields: all as stored
\* before a reset, or all zero
CompleteSnapshots ==
    {GamePadSnapshot(GamePadPressed), GamePadSnapshot(GamePadZero)}

InRange(q, lo, hi) == lo * q[2] <= q[1] /\ q[1] <= hi * q[2]

\* C18: in every snapshot returned by XboxController.get_state() each stick
\* axis lies in [-1, 1] and each trigger in [0, 1], a trigger field above
\* 255 being reported as 1.  (SpecRange)  Violated: update() stores
\* leftTrigger()/rightTrigger(), raw / 255.0, as they are; the clamp of
\* Trigger.update() is never called.
C18_SnapshotInRange ==
    \A t \in active :
        (ret[t].op = "get_state" /\ ret[t].status = "returned")
            => /\ InRange(ret[t].value.left_stick_x, -1, 1)
               /\ InRange(ret[t].value.left_stick_y, -1, 1)
               /\ InRange(ret[t].value.right_stick_x, -1, 1)
               /\ InRange(ret[t].value.right_stick_y, -1, 1)
               /\ InRange(ret[t].value.left_trigger_pulled, 0, 1)
               /\ InRange(ret[t].value.right_trigger_pulled, 0, 1)

\* C19: axisScale(raw, d) is 0 when |raw| < d, (raw + d) / (32768 - d) when
\* raw < 0 and (raw - d) / (32767 - d) otherwise; with d = 4000 it is 0 at
\* -3999, 0 and 3999, 1 at 32767 and -1 at -32768; and it lies in [-1, 1].
\* (SpecCalc)
C19_AxisScaleRule ==
    (calc.fn = "axisScale" /\ calc.done)
        => LET raw == calc.raw
               d == calc.deadzone
               q == calc.out
           IN  /\ q[2] > 0
               /\ (raw < d /\ -raw < d) => q = <<0, 1>>
               /\ (~(raw < d /\ -raw < d) /\ raw < 0)
                     => q[1] * (32768 - d) = (raw + d) * q[2]
               /\ (~(raw < d /\ -raw < d) /\ raw >= 0)
                     => q[1] * (32767 - d) = (raw - d) * q[2]
               /\ (d = 4000 /\ raw \in {-3999, 0, 3999}) => q = <<0, 1>>
               /\ (d = 4000 /\ raw = 32767) => q = <<1, 1>>
               /\ (d = 4000 /\ raw = -32768) => q = <<-1, 1>>
               /\ InRange(q, -1, 1)

\* axisScale(-32768, 4000) has been computed.
C19_Witness ==
    /\ calc.fn = "axisScale"
    /\ calc.done
    /\ calc.raw = -32768
    /\ calc.deadzone = 4000
    /\ calc.out = <<-1, 1>>

\* C20: Arm.set_velocity() calls the base joint's set_safe_velocity when the
\* flag is 1 and set_velocity otherwise, and the base method's self is the
\* arm and each of its parameters has the value of the same-named argument.
\* (SpecCalc)  Violated: the base method is taken from the class and called
\* without self, so v_m lands in self and every argument in the parameter
\* before its own (or the call is refused with TypeError).
C20_ArgumentsPassThrough ==
    (calc.fn = "set_velocity" /\ calc.done)
        => /\ calc.outcome = "called"
           /\ calc.callee = IF calc.flag = 1 THEN "set_safe_velocity"
                            ELSE "set_velocity"
           /\ calc.bound["self"] = TheArm
           /\ \A p \in DOMAIN calc.args : calc.bound[p] = calc.args[p]

\* C21: a refresh() that polls, finds buffered lines and reads no
\* zero-length one drains them all, and the last line alone decides:
\* connectStatus is True afterwards exactly when that line is 140 long, the
\* reading is that line in that case and is unchanged otherwise, whatever
\* the lines before it were; so a client that had lost the connection is
\* connected again by the first such refresh whose last line is valid, being
\* the same client (no start() in between).  (Spec)
C21_LastLineDecides ==
    [][\A t \in active :
        (/\ AssignStep(t)
         /\ PollDue
         /\ ~Dead(joy)
         /\ client[joy].pipe # <<>>)
        => LET last == client[joy].pipe[Len(client[joy].pipe)]
           IN  /\ client'[joy].connectStatus = (last.len = TelemetryLen)
               /\ client'[joy].reading =
                      IF last.len = TelemetryLen THEN last
                      ELSE client[joy].reading
               /\ client'[joy].pipe = <<>>
               /\ joy' = joy
               /\ starts' = starts]_vars

\* The held client is connected after a refresh() had marked it
\* disconnected, and it is the client of the only start() made.
C21_Witness ==
    /\ joy # None
    /\ starts = 1
    /\ client[joy].lost
    /\ client[joy].connectStatus
    /\ client[joy].prevPoll # 0

\* C22: every run of update()'s assignments, made while another thread can
\* call stop(), calls its accessors on a client: self.joy is not None, it
\* is the client the presence check found, and no stop() has closed it.
\* (SpecRace)  Violated: stop() takes no lock, so its close() and its
\* `self.joy = None` fall between the check and the accessors of an update()
\* in another thread.
C22_UpdateSeesLiveClient ==
    [][\A t \in active :
        AssignStep(t)
        => /\ joy # None
           /\ joy = frame[t].cid
           /\ ~\E u \in active :
                  frame[u].op = "stop" /\ frame[u].closed = joy]_vars

\* No call is in progress and no killall is waiting to run
Quiescent == killall = {} /\ \A t \in active : pc[t] = "idle"

\* C23: no driver process is leaked: whenever no call is in progress (and no
\* killall is still to run), every process launched by this controller that
\* is running is the one of the client self.joy holds, and none is running
\* when self.joy is None.  (Spec)  Violated: Joystick.__init__ raises on the
\* `No Xbox` line without close(), so the process it launched runs on with
\* no client owning it.
C23_NoLeakedDriver ==
    Quiescent => \A p \in Procs : Running(p) => p = joy

\* C24: once stop() has raised stop_thread on a started poller, the polling
\* thread eventually ends: run() returns.  (SpecGamePadFair)  Violated:
\* update() returns, but run() loops on shutdown_flag, which nothing sets,
\* and calls update() again for ever.
C24_ThreadTerminates ==
    (stop_thread /\ gpThread.pc # "unstarted") ~> (gpThread.pc = "done")

====
